---- MODULE Spec2Model ----
(***************************************************************************)
(* Model of the Spotify OAuth handshake of playlist-migrator: the          *)
(* SpotifyOAuth client (oauth.py), the token model (models.py), the        *)
(* settings it reads (config.py) and the FastAPI handlers that call it     *)
(* (main.py).                                                              *)
(*                                                                         *)
(* Two specifications share the definitions below:                         *)
(*   SpecClient  one caller driving the SpotifyOAuth methods directly      *)
(*               (authorization URL, code exchange, refresh chains);       *)
(*   Spec        concurrent HTTP requests against the FastAPI handlers,    *)
(*               interleaved at every await of an upstream request.        *)
(***************************************************************************)
EXTENDS Integers, Sequences, FiniteSets, TLC

(***************************************************************************)
(* Bounds of the model.                                                    *)
(***************************************************************************)
\* The clock (seconds) runs from 0 to MaxClock.
MaxClock == 1
\* Largest lifetime (expires_in) an upstream token response reports.
MaxLifetime == 1

(***************************************************************************)
(* Python values.  None is kept apart from every string, the empty string  *)
(* included.  A JSON member of an upstream body is tagged with its type;   *)
(* "absent" means the key is not in the object.                            *)
(***************************************************************************)
None == "<None>"

JAbsent == [t |-> "absent", s |-> "", n |-> 0, a |-> <<>>]
JNull == [t |-> "null", s |-> "", n |-> 0, a |-> <<>>]
JStr(x) == [t |-> "str", s |-> x, n |-> 0, a |-> <<>>]
JInt(k) == [t |-> "int", s |-> "", n |-> k, a |-> <<>>]
JObject == [t |-> "object", s |-> "", n |-> 0, a |-> <<>>]
JArray(seq) == [t |-> "array", s |-> "", n |-> 0, a |-> seq]

\* Python truthiness of an Optional[str]: None and "" are falsy.
Truthy(v) == v # None /\ v # ""

\* dict.get(key, default): the default is used only when the key is missing;
\* a key that is present with the value null yields None.
DictGet(member, default) == IF member.t = "absent" THEN default ELSE member

\* The Python value of an Optional[str] field that passed validation.
OptStr(j) == IF j.t = "str" THEN j.s ELSE None

(***************************************************************************)
(* config.py: the settings the OAuth client reads.                         *)
(***************************************************************************)
SPOTIFY_REDIRECT_URI == "http://127.0.0.1:8000/auth/spotify/callback"
SPOTIFY_SCOPES == "playlist-read-private playlist-read-collaborative playlist-modify-public playlist-modify-private user-read-private user-read-email"

\* The environments the process can start in: credentials configured, the
\* identifier missing (None), the secret set to the empty string, both.
SettingsSet ==
    { [SPOTIFY_CLIENT_ID |-> id, SPOTIFY_CLIENT_SECRET |-> sec,
       SPOTIFY_REDIRECT_URI |-> SPOTIFY_REDIRECT_URI,
       SPOTIFY_SCOPES |-> SPOTIFY_SCOPES] :
        id \in {None, "cid"}, sec \in {"", "secret"} }

\* str.split() of the scope setting.
SplitScopes(s) ==
    IF s = SPOTIFY_SCOPES
    THEN <<"playlist-read-private", "playlist-read-collaborative",
           "playlist-modify-public", "playlist-modify-private",
           "user-read-private", "user-read-email">>
    ELSE <<s>>

\* ' '.join(scopes)
JoinScopes(seq) ==
    IF seq = SplitScopes(SPOTIFY_SCOPES) THEN SPOTIFY_SCOPES
    ELSE IF Len(seq) = 1 THEN seq[1] ELSE ""

(***************************************************************************)
(* oauth.py: SpotifyOAuth.__init__                                         *)
(***************************************************************************)
SpotifyOAuth_init(cfg) ==
    [client_id |-> cfg.SPOTIFY_CLIENT_ID,
     client_secret |-> cfg.SPOTIFY_CLIENT_SECRET,
     redirect_uri |-> cfg.SPOTIFY_REDIRECT_URI,
     scopes |-> SplitScopes(cfg.SPOTIFY_SCOPES)]

CredentialsMissing_IdOnly(self) == ~Truthy(self.client_id)

\* `not self.client_id or not self.client_secret`
CredentialsMissing(self) ==
    ~Truthy(self.client_id) \/ ~Truthy(self.client_secret)

(***************************************************************************)
(* oauth.py: SpotifyOAuth.get_authorization_url                            *)
(***************************************************************************)
\* The values secrets.token_urlsafe(32) can return: non-empty strings over the
\* URL-safe alphabet.
GeneratedStates == {"g1", "g2"}

\* The states a caller can pass: none, the empty string, an URL-safe string,
\* a string with a character that urlencode escapes.
SuppliedStates == {None, "", "s1", "a b"}

\* urllib.parse.quote_plus as urlencode applies it to a value: URL-safe
\* strings are unchanged, a space becomes "+", None is formatted as "None".
quote_plus(v) ==
    IF v = None THEN "None"
    ELSE IF v = "a b" THEN "a+b"
    ELSE v

\* The inverse a query-string parser applies (unquote_plus).
unquote_plus(v) == IF v = "a+b" THEN "a b" ELSE v

\* urlencode(params): the query as the sequence of key=value pairs.
urlencode(params) ==
    [i \in 1..Len(params) |-> <<params[i][1], quote_plus(params[i][2])>>]

\* The values the query carries for a key, decoded.
QueryValues(query, key) ==
    [i \in {j \in 1..Len(query) : query[j][1] = key} |-> unquote_plus(query[i][2])]

StateOrGenerated_AlwaysFresh(state, rnd) == rnd

StateOrGenerated_DrawnOnce(state, rnd) == IF ~Truthy(state) THEN "g1" ELSE state

\* `if not state: state = secrets.token_urlsafe(32)`; rnd is the value drawn.
StateOrGenerated(state, rnd) == IF ~Truthy(state) THEN rnd ELSE state

get_authorization_url(self, state, rnd) ==
    LET st == StateOrGenerated(state, rnd)
        params == << <<"client_id", self.client_id>>,
                     <<"response_type", "code">>,
                     <<"redirect_uri", self.redirect_uri>>,
                     <<"scope", JoinScopes(self.scopes)>>,
                     <<"state", st>>,
                     <<"show_dialog", "true">> >>
    IN [auth_url |-> [base |-> "https://accounts.spotify.com/authorize",
                      query |-> urlencode(params)],
        state |-> st]

(***************************************************************************)
(* models.py: SpotifyToken, and the upstream token endpoint's answers.     *)
(***************************************************************************)
Lifetimes == (0 - 1)..MaxLifetime

BaseTokenBody ==
    [json |-> "object", access_token |-> JStr("AT1"), expires_in |-> JInt(1),
     refresh_token |-> JStr("RT1"), token_type |-> JStr("Bearer"),
     scope |-> JAbsent]

\* A well-formed token body; the refresh token may be missing or null.
GoodTokenBodies ==
    [json : {"object"},
     access_token : {JStr("AT1")},
     expires_in : {JInt(k) : k \in Lifetimes},
     refresh_token : {JAbsent, JNull, JStr("RT1"), JStr("RT2")},
     token_type : {JStr("Bearer")},
     scope : {JAbsent}]
    \cup { [BaseTokenBody EXCEPT !.access_token = JStr("AT2")],
           [BaseTokenBody EXCEPT !.token_type = JAbsent],
           [BaseTokenBody EXCEPT !.scope = JStr("user-read-private")] }

\* Bodies that are not a token: no JSON at all, JSON that is not an object,
\* an object with a required member missing or a member of the wrong type.
BadTokenBodies ==
    { [BaseTokenBody EXCEPT !.json = "invalid"],
      [BaseTokenBody EXCEPT !.json = "array"] }
    \cup { [BaseTokenBody EXCEPT !.access_token = v] : v \in {JAbsent, JNull, JInt(7)} }
    \cup { [BaseTokenBody EXCEPT !.expires_in = v] : v \in {JAbsent, JNull, JStr("3600")} }
    \cup { [BaseTokenBody EXCEPT !.refresh_token = JInt(7)],
           [BaseTokenBody EXCEPT !.token_type = JNull],
           [BaseTokenBody EXCEPT !.scope = JInt(7)] }

\* What a POST to the token endpoint can come back with.
TokenResponses ==
    { [net |-> "error", status |-> 0, body |-> BaseTokenBody] }
    \cup { [net |-> "ok", status |-> st, body |-> BaseTokenBody] : st \in {302, 400, 500} }
    \cup { [net |-> "ok", status |-> 200, body |-> b] : b \in GoodTokenBodies \cup BadTokenBodies }

NoResponse == [net |-> "none", status |-> 0, body |-> BaseTokenBody]

\* httpx Response.is_success, the test raise_for_status applies.
is_success(status) == 200 <= status /\ status <= 299

NullToken ==
    [access_token |-> "", token_type |-> "", expires_in |-> 0,
     refresh_token |-> None, scope |-> None, expires_at |-> 0]

NullUser ==
    [id |-> "", display_name |-> None, email |-> None, country |-> None,
     followers |-> None, images |-> None, product |-> None]

\* What a method of the client hands back to its caller: a value (a "token",
\* a "user", a "list" of playlists), None ("none") or an exception that
\* leaves the method ("raise").  requests is the number of HTTP requests the
\* call sent.
ReturnNone(n) ==
    [kind |-> "none", token |-> NullToken, user |-> NullUser, items |-> <<>>,
     exc |-> "", requests |-> n]
ReturnToken(tok, n) == [ReturnNone(n) EXCEPT !.kind = "token", !.token = tok]
ReturnUser(u, n) == [ReturnNone(n) EXCEPT !.kind = "user", !.user = u]
ReturnList(seq, n) == [ReturnNone(n) EXCEPT !.kind = "list", !.items = seq]
Raise(e, n) == [ReturnNone(n) EXCEPT !.kind = "raise", !.exc = e]
\* A decoded JSON value handed back as it is: null is None, an array is a
\* list, anything else is a value of its own Python type ("int", "str", ...).
ReturnJson(j, n) ==
    CASE j.t = "null" -> ReturnNone(n)
      [] j.t = "array" -> ReturnList(j.a, n)
      [] OTHER -> [ReturnNone(n) EXCEPT !.kind = j.t]

\* SpotifyToken(...): pydantic validation of the constructor's arguments.
SpotifyTokenValid(access_token, token_type, expires_in, refresh_token, scope) ==
    /\ access_token.t = "str"
    /\ token_type.t = "str"
    /\ expires_in.t = "int"
    /\ refresh_token.t \in {"null", "str"}
    /\ scope.t \in {"null", "str"}

ExpiresAt_LifetimeOnly(now, expires_in) == expires_in

\* `expires_at = datetime.utcnow() + timedelta(seconds=token_data['expires_in'])`
ExpiresAt(now, expires_in) == now + expires_in

\* The body of the try block of exchange_code_for_token / refresh_access_token
\* from the answer to the POST on: raise_for_status, response.json(), the
\* expiry and the SpotifyToken.  refresh_token is the value the caller of this
\* block passes for the token's refresh_token.
TokenFromResponse(resp, now, refresh_token) ==
    LET b == resp.body
        token_type == DictGet(b.token_type, JStr("Bearer"))
        scope == DictGet(b.scope, JNull)
    IN CASE resp.net # "ok" -> Raise("httpx.TransportError", 1)
         [] ~is_success(resp.status) -> Raise("httpx.HTTPStatusError", 1)
         [] b.json = "invalid" -> Raise("JSONDecodeError", 1)
         [] b.json # "object" -> Raise("TypeError", 1)
         [] b.expires_in.t = "absent" -> Raise("KeyError", 1)
         [] b.expires_in.t # "int" -> Raise("TypeError", 1)
         [] b.access_token.t = "absent" -> Raise("KeyError", 1)
         [] ~SpotifyTokenValid(b.access_token, token_type, b.expires_in,
                               refresh_token, scope) -> Raise("ValidationError", 1)
         [] OTHER ->
              ReturnToken([access_token |-> b.access_token.s,
                           token_type |-> token_type.s,
                           expires_in |-> b.expires_in.n,
                           refresh_token |-> OptStr(refresh_token),
                           scope |-> OptStr(scope),
                           expires_at |-> ExpiresAt(now, b.expires_in.n)], 1)

\* `except httpx.HTTPError ... return None` / `except Exception ... return None`
IsHTTPError(e) == e \in {"httpx.TransportError", "httpx.HTTPStatusError"}

ExceptClauses_HTTPErrorOnly(r) ==
    IF r.kind # "raise" THEN r
    ELSE IF IsHTTPError(r.exc) THEN ReturnNone(r.requests)
    ELSE r

ExceptClauses(r) ==
    IF r.kind # "raise" THEN r
    ELSE IF IsHTTPError(r.exc) THEN ReturnNone(r.requests)
    ELSE ReturnNone(r.requests)

(***************************************************************************)
(* oauth.py: SpotifyOAuth.exchange_code_for_token                          *)
(* resp is the answer the POST gets, now the clock when it is processed.   *)
(***************************************************************************)
exchange_code_for_token(self, code, resp, now) ==
    IF CredentialsMissing(self) THEN ReturnNone(0)
    ELSE ExceptClauses(
            TokenFromResponse(resp, now, DictGet(resp.body.refresh_token, JNull)))

(***************************************************************************)
(* oauth.py: SpotifyOAuth.refresh_access_token                             *)
(***************************************************************************)
refresh_access_token_AlwaysPosts(self, refresh_token, resp, now) ==
    ExceptClauses(
        TokenFromResponse(resp, now,
            DictGet(resp.body.refresh_token, JStr(refresh_token))))

refresh_access_token(self, refresh_token, resp, now) ==
    IF CredentialsMissing(self) THEN ReturnNone(0)
    ELSE ExceptClauses(
            TokenFromResponse(resp, now,
                DictGet(resp.body.refresh_token, JStr(refresh_token))))

(***************************************************************************)
(* oauth.py: SpotifyOAuth.get_user_profile                                 *)
(***************************************************************************)
BaseProfileBody ==
    [json |-> "object", id |-> JStr("user1"), display_name |-> JStr("Ann"),
     email |-> JAbsent, country |-> JAbsent, followers |-> JAbsent,
     images |-> JAbsent, product |-> JAbsent]

\* What a GET of the profile endpoint can come back with.
ProfileResponses ==
    { [net |-> "error", status |-> 0, body |-> BaseProfileBody] }
    \cup { [net |-> "ok", status |-> st, body |-> BaseProfileBody] : st \in {401, 500} }
    \cup { [net |-> "ok", status |-> 200, body |-> b] :
             b \in { BaseProfileBody,
                     [BaseProfileBody EXCEPT !.display_name = JNull,
                                             !.followers = JObject,
                                             !.images = JArray(<<>>)],
                     [BaseProfileBody EXCEPT !.id = JStr("user2")],
                     [BaseProfileBody EXCEPT !.json = "invalid"],
                     [BaseProfileBody EXCEPT !.id = JAbsent],
                     [BaseProfileBody EXCEPT !.id = JNull],
                     [BaseProfileBody EXCEPT !.email = JInt(7)],
                     [BaseProfileBody EXCEPT !.followers = JInt(7)] } }

\* SpotifyUser(...): pydantic validation of the constructor's arguments.
SpotifyUserValid(id, display_name, email, country, followers, images, product) ==
    /\ id.t = "str"
    /\ display_name.t \in {"null", "str"}
    /\ email.t \in {"null", "str"}
    /\ country.t \in {"null", "str"}
    /\ followers.t \in {"null", "object"}
    /\ images.t \in {"null", "array"}
    /\ product.t \in {"null", "str"}

\* An Optional container field: None, or the kind of container it holds.
OptKind(j) == IF j.t = "null" THEN None ELSE j.t

\* The header both resource methods build: f'Bearer {access_token}'.
BearerHeader(access_token) == <<"Authorization", "Bearer", access_token>>

NoHttpRequest == [method |-> "", url |-> "", headers |-> <<>>, limit |-> 0]

\* The request get_user_profile hands to client.get.
ProfileRequest(access_token) ==
    [method |-> "GET", url |-> "https://api.spotify.com/v1/me",
     headers |-> <<BearerHeader(access_token)>>, limit |-> 0]

get_user_profile(self, access_token, resp) ==
    LET b == resp.body
        display_name == DictGet(b.display_name, JNull)
        email == DictGet(b.email, JNull)
        country == DictGet(b.country, JNull)
        followers == DictGet(b.followers, JNull)
        images == DictGet(b.images, JNull)
        product == DictGet(b.product, JNull)
    IN ExceptClauses(
         CASE resp.net # "ok" -> Raise("httpx.TransportError", 1)
           [] ~is_success(resp.status) -> Raise("httpx.HTTPStatusError", 1)
           [] b.json = "invalid" -> Raise("JSONDecodeError", 1)
           [] b.json # "object" -> Raise("TypeError", 1)
           [] b.id.t = "absent" -> Raise("KeyError", 1)
           [] ~SpotifyUserValid(b.id, display_name, email, country, followers,
                                images, product) -> Raise("ValidationError", 1)
           [] OTHER ->
                ReturnUser([id |-> b.id.s,
                            display_name |-> OptStr(display_name),
                            email |-> OptStr(email),
                            country |-> OptStr(country),
                            followers |-> OptKind(followers),
                            images |-> OptKind(images),
                            product |-> OptStr(product)], 1))

(***************************************************************************)
(* oauth.py: SpotifyOAuth.get_user_playlists                               *)
(***************************************************************************)
DefaultLimit == 50

BasePlaylistsBody == [json |-> "object", items |-> JArray(<<"pl1">>)]

\* What a GET of the playlists endpoint can come back with.
PlaylistsResponses ==
    { [net |-> "error", status |-> 0, body |-> BasePlaylistsBody] }
    \cup { [net |-> "ok", status |-> st, body |-> BasePlaylistsBody] : st \in {401, 500} }
    \cup { [net |-> "ok", status |-> 200, body |-> b] :
             b \in { BasePlaylistsBody,
                     [BasePlaylistsBody EXCEPT !.items = JArray(<<>>)],
                     [BasePlaylistsBody EXCEPT !.items = JArray(<<"pl1", "pl2">>)],
                     [BasePlaylistsBody EXCEPT !.items = JAbsent],
                     [BasePlaylistsBody EXCEPT !.items = JNull],
                     [BasePlaylistsBody EXCEPT !.items = JInt(7)],
                     [BasePlaylistsBody EXCEPT !.json = "invalid"],
                     [BasePlaylistsBody EXCEPT !.json = "array"] } }

\* The request get_user_playlists hands to client.get.
PlaylistsRequest(access_token, limit) ==
    [method |-> "GET", url |-> "https://api.spotify.com/v1/me/playlists",
     headers |-> <<BearerHeader(access_token)>>, limit |-> limit]

\* `data.get('items', [])`: the member as it is, [] when it is missing.
get_user_playlists(self, access_token, limit, resp) ==
    LET b == resp.body
        items == DictGet(b.items, JArray(<<>>))
    IN ExceptClauses(
         CASE resp.net # "ok" -> Raise("httpx.TransportError", 1)
           [] ~is_success(resp.status) -> Raise("httpx.HTTPStatusError", 1)
           [] b.json = "invalid" -> Raise("JSONDecodeError", 1)
           [] b.json # "object" -> Raise("AttributeError", 1)
           [] OTHER -> ReturnJson(items, 1))

(***************************************************************************)
(* State.                                                                  *)
(*   settings       config.settings, as loaded at import                   *)
(*   spotify_oauth  the module-level SpotifyOAuth instance                 *)
(*   now            datetime.utcnow(), in seconds                          *)
(*   held           the Token the direct caller of the client holds        *)
(*   last           the direct caller's last call: method, argument,       *)
(*                  upstream answer, clock at processing, what it returned *)
(*   callers        the HTTP requests in flight, one per caller            *)
(*   issued         the states /auth/spotify/login has handed out          *)
(*   consumed       the states whose callback went on to a token           *)
(*   generated      the values secrets.token_urlsafe has returned, in      *)
(*                  order, where a specification keeps track of them       *)
(*   util           what a specification of one function or one resource   *)
(*                  keeps: the utils.py call under way, the users the      *)
(*                  service has reported created and deleted               *)
(***************************************************************************)
VARIABLES settings, spotify_oauth, now, held, last, callers, issued, consumed,
          generated, util

vars == <<settings, spotify_oauth, now, held, last, callers, issued, consumed,
          generated, util>>

NoUtil == [fn |-> "none"]

Codes == {"code1", "code2"}

\* A refresh token the caller kept from an earlier run of the process.
StoredRefreshTokens == {"RT0"}

NoUrl == [auth_url |-> [base |-> "", query |-> <<>>], state |-> None]

NoCall ==
    [fn |-> "none", arg |-> None, resp |-> NoResponse, T |-> 0,
     result |-> ReturnNone(0), url |-> NoUrl, request |-> NoHttpRequest]

\* The clock advances between any two steps.
Tick ==
    /\ now < MaxClock
    /\ now' = now + 1
    /\ UNCHANGED <<settings, spotify_oauth, held, last, callers, issued, consumed, generated, util>>

(***************************************************************************)
(* SpecClient: one caller using the SpotifyOAuth methods directly and      *)
(* keeping the Token it gets.                                              *)
(***************************************************************************)
ClientAuthUrl ==
    \E state \in SuppliedStates, rnd \in GeneratedStates :
        /\ last' = [NoCall EXCEPT !.fn = "get_authorization_url",
                                  !.arg = state, !.T = now,
                                  !.url = get_authorization_url(spotify_oauth, state, rnd)]
        /\ UNCHANGED <<settings, spotify_oauth, now, held, callers, issued, consumed, generated, util>>

ClientExchange ==
    \E code \in Codes, resp \in TokenResponses :
        LET r == exchange_code_for_token(spotify_oauth, code, resp, now)
        IN /\ last' = [NoCall EXCEPT !.fn = "exchange_code_for_token",
                                     !.arg = code, !.resp = resp, !.T = now,
                                     !.result = r]
           /\ held' = IF r.kind = "token" THEN r ELSE held
           /\ UNCHANGED <<settings, spotify_oauth, now, callers, issued, consumed, generated, util>>

\* The refresh tokens the caller has at hand: the one of the Token it holds,
\* or one it stored earlier.
RefreshInputs ==
    StoredRefreshTokens \cup
    (IF held.kind = "token" /\ held.token.refresh_token # None
     THEN {held.token.refresh_token} ELSE {})

ClientRefresh ==
    \E rt \in RefreshInputs, resp \in TokenResponses :
        LET r == refresh_access_token(spotify_oauth, rt, resp, now)
        IN /\ last' = [NoCall EXCEPT !.fn = "refresh_access_token",
                                     !.arg = rt, !.resp = resp, !.T = now,
                                     !.result = r]
           /\ held' = IF r.kind = "token" THEN r ELSE held
           /\ UNCHANGED <<settings, spotify_oauth, now, callers, issued, consumed, generated, util>>

AccessTokens == {"AT1", ""}

ClientProfile ==
    \E at \in AccessTokens, resp \in ProfileResponses :
        /\ last' = [NoCall EXCEPT !.fn = "get_user_profile",
                                  !.arg = at, !.resp = resp, !.T = now,
                                  !.request = ProfileRequest(at),
                                  !.result = get_user_profile(spotify_oauth, at, resp)]
        /\ UNCHANGED <<settings, spotify_oauth, now, held, callers, issued, consumed, generated, util>>

ClientPlaylists ==
    \E at \in AccessTokens, resp \in PlaylistsResponses :
        /\ last' = [NoCall EXCEPT !.fn = "get_user_playlists",
                                  !.arg = at, !.resp = resp, !.T = now,
                                  !.request = PlaylistsRequest(at, DefaultLimit),
                                  !.result = get_user_playlists(spotify_oauth, at,
                                                                DefaultLimit, resp)]
        /\ UNCHANGED <<settings, spotify_oauth, now, held, callers, issued, consumed, generated, util>>

NoCallers == [c \in {} |-> 0]

InitClient ==
    /\ settings \in SettingsSet
    /\ spotify_oauth = SpotifyOAuth_init(settings)
    /\ now = 0
    /\ held = ReturnNone(0)
    /\ last = NoCall
    /\ callers = NoCallers
    /\ issued = {}
    /\ consumed = {}
    /\ generated = <<>>
    /\ util = NoUtil

NextClient ==
    \/ ClientAuthUrl
    \/ ClientExchange
    \/ ClientRefresh
    \/ ClientProfile
    \/ ClientPlaylists
    \/ Tick

SpecClient == InitClient /\ [][NextClient]_vars

(***************************************************************************)
(* Claims about the client's methods, checked under SpecClient.            *)
(***************************************************************************)
TokenCall == last.fn \in {"exchange_code_for_token", "refresh_access_token"}

\* C2: every refresh_access_token(rt) that returns a Token returns rt as its
\* refresh token when the upstream answer carries no new refresh token (the
\* member is missing or null), and the new one when it carries one; so along a
\* chain of refreshes the refresh token is never lost.
C2_RefreshCarriesForward ==
    (last.fn = "refresh_access_token" /\ last.result.kind = "token") =>
        LET m == last.resp.body.refresh_token
            got == last.result.token.refresh_token
        IN /\ m.t \in {"absent", "null"} => got = last.arg
           /\ m.t = "str" => got = m.s
           /\ got # None

\* C3: a state the caller supplies, the empty string included, is returned
\* unmodified and is the state parameter of the URL; a fresh state is
\* generated only when none is supplied.
C3_SuppliedStateReturned ==
    (last.fn = "get_authorization_url" /\ last.arg # None) =>
        /\ last.url.state = last.arg
        /\ \A i \in DOMAIN QueryValues(last.url.auth_url.query, "state") :
               QueryValues(last.url.auth_url.query, "state")[i] = last.arg

\* C3 as amended: a non-empty state the caller supplies is returned unmodified
\* and is the one state parameter of the URL; when no state or the empty
\* string is supplied a fresh state is generated and returned instead.
C3_NonEmptyStateReturned ==
    (last.fn = "get_authorization_url") =>
        LET q == QueryValues(last.url.auth_url.query, "state")
            expected == IF last.arg \in {None, ""} THEN last.url.state ELSE last.arg
        IN /\ last.url.state = expected
           /\ last.arg \in {None, ""} => last.url.state \in GeneratedStates
           /\ Cardinality(DOMAIN q) = 1
           /\ \A i \in DOMAIN q : q[i] = expected

C3_Witness ==
    /\ last.fn = "get_authorization_url"
    /\ last.arg = "a b"
    /\ last.url.state = "a b"

\* A token answer the upstream sent in full: 2xx, a JSON object, the required
\* members present, every member of its declared type.
WellFormedTokenResponse(resp) ==
    /\ resp.net = "ok"
    /\ is_success(resp.status)
    /\ resp.body.json = "object"
    /\ resp.body.access_token.t = "str"
    /\ resp.body.expires_in.t = "int"
    /\ resp.body.refresh_token.t \in {"absent", "null", "str"}
    /\ resp.body.token_type.t \in {"absent", "str"}
    /\ resp.body.scope.t \in {"absent", "null", "str"}

\* C4: exchange_code_for_token and refresh_access_token never raise: on a
\* transport error, a non-2xx status, a body that is not JSON, a missing
\* access_token or expires_in or a member of the wrong type they return None,
\* and they return a Token only for a 2xx answer with a well-formed body.
C4_TokenCallsNeverRaise ==
    TokenCall =>
        /\ last.result.kind \in {"token", "none"}
        /\ ~WellFormedTokenResponse(last.resp) => last.result.kind = "none"

C4_Witness ==
    /\ last.fn = "exchange_code_for_token"
    /\ ~CredentialsMissing(spotify_oauth)
    /\ last.resp.net = "ok" /\ last.resp.status = 200
    /\ last.resp.body.access_token.t = "absent"
    /\ last.result.kind = "none"

\* C5: a successful exchange or refresh whose answer reports expires_in = L
\* and is processed at clock T returns a Token with expires_in = L and
\* expires_at = T + L, never before T when L >= 0.
C5_ExpiryIsIssuePlusLifetime ==
    (TokenCall /\ last.result.kind = "token") =>
        LET L == last.resp.body.expires_in.n
            tok == last.result.token
        IN /\ tok.expires_in = L
           /\ tok.expires_at = last.T + L
           /\ L >= 0 => tok.expires_at >= last.T

C5_Witness ==
    /\ last.fn = "refresh_access_token"
    /\ last.result.kind = "token"
    /\ last.T = 1
    /\ last.resp.body.expires_in.n = 1
    /\ last.result.token.expires_at = 2

UpstreamCall ==
    last.fn \in {"exchange_code_for_token", "refresh_access_token",
                 "get_user_profile", "get_user_playlists"}

\* C7 as stated: every call of exchange_code_for_token, refresh_access_token,
\* get_user_profile or get_user_playlists sends exactly one HTTP request, in
\* every configuration, missing credentials included.
C7_ExactlyOneRequest == UpstreamCall => last.result.requests = 1

\* C7 as amended: get_user_profile and get_user_playlists always send exactly
\* one request; exchange_code_for_token and refresh_access_token send exactly
\* one when the client id and secret are both set and none when either is
\* missing; no call sends more than one.
C7_OneRequestUnlessUnconfigured ==
    /\ last.fn \in {"get_user_profile", "get_user_playlists"} =>
           last.result.requests = 1
    /\ TokenCall =>
           last.result.requests = IF CredentialsMissing(spotify_oauth) THEN 0 ELSE 1

C7_Witness ==
    /\ last.fn = "refresh_access_token"
    /\ CredentialsMissing(spotify_oauth)
    /\ last.result.kind = "none"
    /\ last.result.requests = 0

\* A profile answer the upstream sent in full: 2xx, a JSON object, id a
\* string, every other member missing, null or of its declared type.
WellFormedProfileResponse(resp) ==
    /\ resp.net = "ok"
    /\ is_success(resp.status)
    /\ resp.body.json = "object"
    /\ resp.body.id.t = "str"
    /\ resp.body.display_name.t \in {"absent", "null", "str"}
    /\ resp.body.email.t \in {"absent", "null", "str"}
    /\ resp.body.country.t \in {"absent", "null", "str"}
    /\ resp.body.followers.t \in {"absent", "null", "object"}
    /\ resp.body.images.t \in {"absent", "null", "array"}
    /\ resp.body.product.t \in {"absent", "null", "str"}

\* A playlists answer the upstream sent in full: 2xx, a JSON object, items
\* an array or missing.
WellFormedPlaylistsResponse(resp) ==
    /\ resp.net = "ok"
    /\ is_success(resp.status)
    /\ resp.body.json = "object"
    /\ resp.body.items.t \in {"absent", "array"}

\* C11: get_user_profile and get_user_playlists send one request carrying
\* Authorization: Bearer <token> for every token, the empty one included;
\* they never raise; they return None exactly when the upstream call failed
\* or its body is malformed, and otherwise a user, respectively a list; an
\* answer with no items gives the empty list, which is not None.
C11_ResourceCallsNoneExactlyOnFailure ==
    /\ last.fn = "get_user_profile" =>
          /\ last.request.headers = <<BearerHeader(last.arg)>>
          /\ last.result.requests = 1
          /\ last.result.kind \in {"user", "none"}
          /\ last.result.kind = "none" <=> ~WellFormedProfileResponse(last.resp)
    /\ last.fn = "get_user_playlists" =>
          /\ last.request.headers = <<BearerHeader(last.arg)>>
          /\ last.result.requests = 1
          /\ last.result.kind \in {"list", "none"}
          /\ last.result.kind = "none" <=> ~WellFormedPlaylistsResponse(last.resp)
          /\ (WellFormedPlaylistsResponse(last.resp)
                /\ last.resp.body.items \in {JAbsent, JArray(<<>>)}) =>
                 last.result = ReturnList(<<>>, 1)

(***************************************************************************)
(* SpecAuthUrl: get_authorization_url called again and again.              *)
(* secrets.token_urlsafe(32) encodes 32 bytes of the system's random       *)
(* source: a non-empty URL-safe string which, at 256 bits of entropy, is   *)
(* taken never to be one the generator returned before.  generated is the  *)
(* generator's history, issued the states returned to the calls that       *)
(* supplied none.                                                          *)
(***************************************************************************)
\* How many values of the generator a behaviour follows.
MaxGenerated == 4

TokenValues == { "g" \o ToString(k) : k \in 1..MaxGenerated }

Range(seq) == { seq[i] : i \in DOMAIN seq }

\* secrets.token_urlsafe(32): the values the next draw can give.
token_urlsafe(history) == TokenValues \ Range(history)

AuthUrlCall ==
    \E state \in SuppliedStates :
        \E rnd \in IF Truthy(state) THEN {None} ELSE token_urlsafe(generated) :
            LET r == get_authorization_url(spotify_oauth, state, rnd)
            IN /\ last' = [NoCall EXCEPT !.fn = "get_authorization_url",
                                         !.arg = state, !.T = now, !.url = r]
               /\ generated' = IF Truthy(state) THEN generated
                                ELSE Append(generated, rnd)
               /\ issued' = IF state = None THEN issued \cup {r.state} ELSE issued
               /\ UNCHANGED <<settings, spotify_oauth, now, held, callers,
                              consumed, util>>

SpecAuthUrl == InitClient /\ [][AuthUrlCall]_vars

Callers == {"alice", "bob"}

\* The inputs of the requests.
CallbackCodes == {"code1"}
CallbackStates == GeneratedStates
CallbackErrors == {None, "access_denied"}
RefreshTokens == {"RT1", ""}
PlaylistTokens == {"AT1", ""}

\* The upstream answers the handlers are run against.
HttpTokenResponses ==
    { r \in TokenResponses :
        \/ r.net = "error"
        \/ r.status = 400
        \/ /\ r.status = 200
           /\ r.body \in { BaseTokenBody,
                           [BaseTokenBody EXCEPT !.refresh_token = JAbsent],
                           [BaseTokenBody EXCEPT !.access_token = JStr("AT2")],
                           [BaseTokenBody EXCEPT !.access_token = JAbsent] } }

HttpProfileResponses ==
    { r \in ProfileResponses :
        \/ r.status = 401
        \/ /\ r.status = 200
           /\ r.body \in { BaseProfileBody,
                           [BaseProfileBody EXCEPT !.id = JStr("user2")],
                           [BaseProfileBody EXCEPT !.id = JAbsent] } }

HttpPlaylistsResponses ==
    { r \in PlaylistsResponses :
        \/ r.status = 401
        \/ /\ r.status = 200
           /\ r.body \in { BasePlaylistsBody,
                           [BasePlaylistsBody EXCEPT !.items = JAbsent],
                           [BasePlaylistsBody EXCEPT !.items = JNull] } }

\* What a request is answered with.
NoHttp ==
    [status |-> 0, kind |-> "none", success |-> FALSE, message |-> "",
     has_user |-> FALSE, user |-> NullUser, access_token |-> None,
     state |-> None, auth_url |-> NoUrl.auth_url, health |-> "",
     version |-> "", timestamp |-> 0, items |-> <<>>, count |-> 0,
     error |-> None, security_headers |-> FALSE]

\* models.HealthResponse, returned with FastAPI's default status 200.
HealthResponse(message, version, timestamp, status) ==
    [NoHttp EXCEPT !.status = 200, !.kind = "HealthResponse",
                   !.message = message, !.version = version,
                   !.timestamp = timestamp, !.health = status]

\* models.AuthUrlResponse
AuthUrlResponse(auth_url, state) ==
    [NoHttp EXCEPT !.status = 200, !.kind = "AuthUrlResponse",
                   !.auth_url = auth_url, !.state = state]

AuthFailure_ReportsSuccess(message) ==
    [NoHttp EXCEPT !.status = 200, !.kind = "AuthResponse",
                   !.success = TRUE, !.message = message]

\* models.AuthResponse with user and access_token left at their default None.
AuthFailure(message) ==
    [NoHttp EXCEPT !.status = 200, !.kind = "AuthResponse",
                   !.success = FALSE, !.message = message]

\* The same, its message formatted with the error Spotify reported.
AuthError(message, error) == [AuthFailure(message) EXCEPT !.error = error]

\* models.AuthResponse(success=True, message, user, access_token)
AuthSuccess(message, user, access_token) ==
    [NoHttp EXCEPT !.status = 200, !.kind = "AuthResponse",
                   !.success = TRUE, !.message = message, !.has_user = TRUE,
                   !.user = user, !.access_token = access_token]

\* raise HTTPException(status_code, detail), as http_exception_handler
\* renders it.
HTTPException(status_code, detail, timestamp) ==
    [NoHttp EXCEPT !.status = status_code, !.kind = "error",
                   !.message = detail, !.timestamp = timestamp]

\* The dict get_spotify_playlists returns.
PlaylistsResult(playlists) ==
    [NoHttp EXCEPT !.status = 200, !.kind = "playlists", !.success = TRUE,
                   !.items = playlists, !.count = Len(playlists)]

\* middleware.py (ErrorHandlingMiddleware, SecurityHeadersMiddleware,
\* LoggingMiddleware): the answer of a handler that returned leaves with its
\* status and body as the handler made them, security headers added.
Middleware(resp) == [resp EXCEPT !.security_headers = TRUE]

NoRequest ==
    [pc |-> "idle", handler |-> "none", code |-> None, state |-> None,
     error |-> None, refresh_token |-> None, access_token |-> None,
     token |-> ReturnNone(0), sent |-> 0, got |-> <<>>, response |-> NoHttp]

\* The handler of request req is handed r by a method of the client: got
\* lists what the methods returned to it, in order.
Got(req, r) == [req EXCEPT !.got = Append(@, r.kind)]

\* Caller c has no request in flight and sends one.
Enter(c) == callers[c].pc = "idle"

\* The handler of request req returns resp.
Respond(req, resp) ==
    [req EXCEPT !.pc = "idle", !.token = ReturnNone(0),
                !.response = Middleware(resp)]

\* A method of the client that returns without sending anything returns
\* before its first await: the handler goes on at once.
ReturnsAtOnce(r) == r.requests = 0

LocalToken_OfAnyRequest(c) ==
    LET others == {d \in Callers : callers[d].token.kind = "token" /\ d # c}
    IN IF others = {} THEN callers[c].token
       ELSE callers[CHOOSE d \in others : TRUE].token

\* The local variable `token` of the handler serving caller c.
LocalToken(c) == callers[c].token

(***************************************************************************)
(* main.py: root, health_check                                             *)
(***************************************************************************)
root_handler(clock) ==
    Respond([NoRequest EXCEPT !.handler = "root"],
            HealthResponse("Playlist Migrator API is running", "1.0.0",
                           clock, "healthy"))

root(c) ==
    /\ Enter(c)
    /\ callers' = [callers EXCEPT ![c] = root_handler(now)]
    /\ UNCHANGED <<settings, spotify_oauth, now, held, last, issued, consumed, generated, util>>

health_check_handler(clock) ==
    Respond([NoRequest EXCEPT !.handler = "health_check"],
            HealthResponse("Service is healthy", "1.0.0", clock, "healthy"))

health_check(c) ==
    /\ Enter(c)
    /\ callers' = [callers EXCEPT ![c] = health_check_handler(now)]
    /\ UNCHANGED <<settings, spotify_oauth, now, held, last, issued, consumed, generated, util>>

(***************************************************************************)
(* main.py: spotify_login                                                  *)
(***************************************************************************)
spotify_login_handler(self, rnd) ==
    LET r == get_authorization_url(self, None, rnd)
    IN Respond([NoRequest EXCEPT !.handler = "spotify_login"],
               AuthUrlResponse(r.auth_url, r.state))

spotify_login(c) ==
    \E rnd \in GeneratedStates :
        /\ Enter(c)
        /\ callers' = [callers EXCEPT ![c] = spotify_login_handler(spotify_oauth, rnd)]
        /\ issued' = issued \cup {callers'[c].response.state}
        /\ UNCHANGED <<settings, spotify_oauth, now, held, last, consumed, generated, util>>

(***************************************************************************)
(* main.py: spotify_callback, in three steps: to the POST of the code, from *)
(* its answer to the GET of the profile, from its answer to the return.    *)
(***************************************************************************)
\* What the handler does with the token exchange_code_for_token returned.
callback_after_exchange(req, token, clock) ==
    CASE token.kind = "raise" ->
           Respond(Got(req, token), HTTPException(500,
               "Internal server error during authentication", clock))
      [] token.kind = "none" ->
           Respond(Got(req, token), AuthFailure(
               "Failed to exchange authorization code for access token"))
      [] OTHER ->
           [Got(req, token) EXCEPT !.pc = "callback_profile", !.token = token,
                                   !.sent = req.sent + 1]

OAuthErrorReported_Ignored(error) == FALSE

\* `if error:`
OAuthErrorReported(error) == Truthy(error)

callback_start(self, code, state, error, clock) ==
    LET req == [NoRequest EXCEPT !.handler = "spotify_callback",
                                 !.code = code, !.state = state, !.error = error]
        early == exchange_code_for_token(self, code, NoResponse, clock)
    IN IF OAuthErrorReported(error)
       THEN Respond(req, AuthError("Spotify authentication failed: {error}", error))
       ELSE IF ReturnsAtOnce(early)
       THEN callback_after_exchange(req, early, clock)
       ELSE [req EXCEPT !.pc = "callback_token", !.sent = 1]

callback_on_token(self, req, resp, clock) ==
    callback_after_exchange(req,
        exchange_code_for_token(self, req.code, resp, clock), clock)

callback_on_profile(self, req, token, resp, clock) ==
    LET user == get_user_profile(self, token.token.access_token, resp)
    IN CASE user.kind = "raise" ->
              Respond(Got(req, user), HTTPException(500,
                  "Internal server error during authentication", clock))
         [] user.kind = "none" ->
              Respond(Got(req, user), AuthFailure("Failed to retrieve user profile"))
         [] OTHER ->
              Respond(Got(req, user),
                      AuthSuccess("Successfully authenticated with Spotify",
                                       user.user, token.token.access_token))

spotify_callback(c) ==
    \E code \in CallbackCodes, state \in CallbackStates, error \in CallbackErrors :
        /\ Enter(c)
        /\ callers' = [callers EXCEPT ![c] =
               callback_start(spotify_oauth, code, state, error, now)]
        /\ UNCHANGED <<settings, spotify_oauth, now, held, last, issued, consumed, generated, util>>

spotify_callback_token(c) ==
    \E resp \in HttpTokenResponses :
        /\ callers[c].pc = "callback_token"
        /\ callers' = [callers EXCEPT ![c] =
               callback_on_token(spotify_oauth, callers[c], resp, now)]
        /\ consumed' = IF callers'[c].pc = "callback_profile"
                       THEN consumed \cup {callers[c].state} ELSE consumed
        /\ UNCHANGED <<settings, spotify_oauth, now, held, last, issued, generated, util>>

spotify_callback_profile(c) ==
    \E resp \in HttpProfileResponses :
        /\ callers[c].pc = "callback_profile"
        /\ callers' = [callers EXCEPT ![c] =
               callback_on_profile(spotify_oauth, callers[c], LocalToken(c), resp, now)]
        /\ UNCHANGED <<settings, spotify_oauth, now, held, last, issued, consumed, generated, util>>

(***************************************************************************)
(* main.py: spotify_refresh_token, in three steps like the callback.       *)
(***************************************************************************)
refresh_after_refresh(req, token, clock) ==
    CASE token.kind = "raise" ->
           Respond(Got(req, token), HTTPException(500,
               "Internal server error during token refresh", clock))
      [] token.kind = "none" ->
           Respond(Got(req, token), AuthFailure("Failed to refresh access token"))
      [] OTHER ->
           [Got(req, token) EXCEPT !.pc = "refresh_profile", !.token = token,
                                   !.sent = req.sent + 1]

refresh_start(self, refresh_token, clock) ==
    LET req == [NoRequest EXCEPT !.handler = "spotify_refresh_token",
                                 !.refresh_token = refresh_token]
        early == refresh_access_token(self, refresh_token, NoResponse, clock)
    IN IF ReturnsAtOnce(early)
       THEN refresh_after_refresh(req, early, clock)
       ELSE [req EXCEPT !.pc = "refresh_token", !.sent = 1]

refresh_on_token(self, req, resp, clock) ==
    refresh_after_refresh(req,
        refresh_access_token(self, req.refresh_token, resp, clock), clock)

refresh_on_profile(self, req, token, resp, clock) ==
    LET user == get_user_profile(self, token.token.access_token, resp)
    IN CASE user.kind = "raise" ->
              Respond(Got(req, user), HTTPException(500,
                  "Internal server error during token refresh", clock))
         [] user.kind = "none" ->
              Respond(Got(req, user), AuthFailure(
                  "Failed to retrieve user profile with refreshed token"))
         [] OTHER ->
              Respond(Got(req, user),
                      AuthSuccess("Successfully refreshed access token",
                                       user.user, token.token.access_token))

spotify_refresh_token(c) ==
    \E refresh_token \in RefreshTokens :
        /\ Enter(c)
        /\ callers' = [callers EXCEPT ![c] =
               refresh_start(spotify_oauth, refresh_token, now)]
        /\ UNCHANGED <<settings, spotify_oauth, now, held, last, issued, consumed, generated, util>>

spotify_refresh_token_token(c) ==
    \E resp \in HttpTokenResponses :
        /\ callers[c].pc = "refresh_token"
        /\ callers' = [callers EXCEPT ![c] =
               refresh_on_token(spotify_oauth, callers[c], resp, now)]
        /\ UNCHANGED <<settings, spotify_oauth, now, held, last, issued, consumed, generated, util>>

spotify_refresh_token_profile(c) ==
    \E resp \in HttpProfileResponses :
        /\ callers[c].pc = "refresh_profile"
        /\ callers' = [callers EXCEPT ![c] =
               refresh_on_profile(spotify_oauth, callers[c], LocalToken(c), resp, now)]
        /\ UNCHANGED <<settings, spotify_oauth, now, held, last, issued, consumed, generated, util>>

(***************************************************************************)
(* main.py: get_spotify_playlists, to the GET and from its answer on.      *)
(***************************************************************************)
playlists_start(access_token) ==
    [NoRequest EXCEPT !.handler = "get_spotify_playlists",
                      !.access_token = access_token,
                      !.pc = "playlists", !.sent = 1]

playlists_on_response(self, req, resp, clock) ==
    LET playlists == get_user_playlists(self, req.access_token, DefaultLimit, resp)
    IN CASE playlists.kind = "raise" ->
              Respond(req, HTTPException(500,
                  "Internal server error retrieving playlists", clock))
         [] playlists.kind = "none" ->
              Respond(req, HTTPException(400, "Failed to retrieve playlists", clock))
         [] playlists.kind = "int" ->     \* len(playlists) raises TypeError
              Respond(req, HTTPException(500,
                  "Internal server error retrieving playlists", clock))
         [] OTHER -> Respond(req, PlaylistsResult(playlists.items))

get_spotify_playlists(c) ==
    \E access_token \in PlaylistTokens :
        /\ Enter(c)
        /\ callers' = [callers EXCEPT ![c] = playlists_start(access_token)]
        /\ UNCHANGED <<settings, spotify_oauth, now, held, last, issued, consumed, generated, util>>

get_spotify_playlists_response(c) ==
    \E resp \in HttpPlaylistsResponses :
        /\ callers[c].pc = "playlists"
        /\ callers' = [callers EXCEPT ![c] =
               playlists_on_response(spotify_oauth, callers[c], resp, now)]
        /\ UNCHANGED <<settings, spotify_oauth, now, held, last, issued, consumed, generated, util>>

(***************************************************************************)
(* Spec: the service from the import of main.py on.                        *)
(***************************************************************************)
Init ==
    /\ settings \in SettingsSet
    /\ spotify_oauth = SpotifyOAuth_init(settings)
    /\ now = 0
    /\ held = ReturnNone(0)
    /\ last = NoCall
    /\ callers = [c \in Callers |-> NoRequest]
    /\ issued = {}
    /\ consumed = {}
    /\ generated = <<>>
    /\ util = NoUtil

Next ==
    \/ Tick
    \/ \E c \in Callers :
        \/ root(c)
        \/ health_check(c)
        \/ spotify_login(c)
        \/ spotify_callback(c)
        \/ spotify_callback_token(c)
        \/ spotify_callback_profile(c)
        \/ spotify_refresh_token(c)
        \/ spotify_refresh_token_token(c)
        \/ spotify_refresh_token_profile(c)
        \/ get_spotify_playlists(c)
        \/ get_spotify_playlists_response(c)

Spec == Init /\ [][Next]_vars

(***************************************************************************)
(* Claims about the handlers, checked under Spec.                          *)
(***************************************************************************)
\* The callback of caller c got a Token from the exchange: it holds it while
\* it fetches the profile, or it has answered with success.
CallbackGotToken(c) ==
    /\ callers[c].handler = "spotify_callback"
    /\ \/ callers[c].pc = "callback_profile"
       \/ callers[c].response.success

\* C1: the callback fails, with no token produced, whenever the state it is
\* given is not the state the authorization-URL generator issued for the
\* attempt; a state that was not issued is never accepted.
C1_MismatchedStateRejected ==
    \A c \in Callers : CallbackGotToken(c) => callers[c].state \in issued

\* C6: a state leads to a token exchange in at most one callback: a callback
\* whose state was never issued, or was consumed by an earlier callback,
\* produces no token.
C6_StateConsumedOnce ==
    [][\A c \in Callers :
         (callers[c].pc = "callback_token" /\ callers'[c].pc = "callback_profile")
            => (callers[c].state \in issued /\ callers[c].state \notin consumed)]_vars

\* The client id or the client secret is absent from the settings.
CredentialAbsent ==
    \/ settings.SPOTIFY_CLIENT_ID \in {None, ""}
    \/ settings.SPOTIFY_CLIENT_SECRET \in {None, ""}

\* C8: with the client id or secret absent the SpotifyOAuth instance is still
\* constructed, every code exchange and refresh ends with no token (the
\* handler answers success = False without a request sent), and GET / and
\* GET /health answer 200 with status "healthy" in every state.
C8_DegradesWithoutCredentials ==
    /\ spotify_oauth = SpotifyOAuth_init(settings)
    /\ \A c \in Callers :
         callers[c].handler \in {"root", "health_check"} =>
            /\ callers[c].response.status = 200
            /\ callers[c].response.health = "healthy"
    /\ CredentialAbsent =>
         \A c \in Callers :
            /\ callers[c].token.kind = "none"
            /\ callers[c].handler \in {"spotify_callback", "spotify_refresh_token"} =>
                  /\ callers[c].pc = "idle"
                  /\ callers[c].sent = 0
                  /\ callers[c].response.kind = "AuthResponse"
                  /\ ~callers[c].response.success
                  /\ callers[c].response.access_token = None

C8_Witness ==
    /\ CredentialAbsent
    /\ callers["alice"].handler = "spotify_callback"
    /\ callers["alice"].error = None
    /\ callers["alice"].response.message =
           "Failed to exchange authorization code for access token"
    /\ callers["bob"].handler = "health_check"
    /\ callers["bob"].response.status = 200

\* new is what a request in state req can become in one step when its
\* handler runs alone on the client self: an outcome of the request's own
\* inputs and its own upstream answer.
IsOwnOutcome(new, req, self, clock) ==
    CASE req.pc = "idle" /\ new.handler = "root" -> new = root_handler(clock)
      [] req.pc = "idle" /\ new.handler = "health_check" ->
           new = health_check_handler(clock)
      [] req.pc = "idle" /\ new.handler = "spotify_login" ->
           \E rnd \in GeneratedStates : new = spotify_login_handler(self, rnd)
      [] req.pc = "idle" /\ new.handler = "spotify_callback" ->
           /\ new.code \in CallbackCodes
           /\ new.state \in CallbackStates
           /\ new.error \in CallbackErrors
           /\ new = callback_start(self, new.code, new.state, new.error, clock)
      [] req.pc = "idle" /\ new.handler = "spotify_refresh_token" ->
           /\ new.refresh_token \in RefreshTokens
           /\ new = refresh_start(self, new.refresh_token, clock)
      [] req.pc = "idle" /\ new.handler = "get_spotify_playlists" ->
           /\ new.access_token \in PlaylistTokens
           /\ new = playlists_start(new.access_token)
      [] req.pc = "callback_token" ->
           \E resp \in HttpTokenResponses :
               new = callback_on_token(self, req, resp, clock)
      [] req.pc = "callback_profile" ->
           \E resp \in HttpProfileResponses :
               new = callback_on_profile(self, req, req.token, resp, clock)
      [] req.pc = "refresh_token" ->
           \E resp \in HttpTokenResponses :
               new = refresh_on_token(self, req, resp, clock)
      [] req.pc = "refresh_profile" ->
           \E resp \in HttpProfileResponses :
               new = refresh_on_profile(self, req, req.token, resp, clock)
      [] req.pc = "playlists" ->
           \E resp \in HttpPlaylistsResponses :
               new = playlists_on_response(self, req, resp, clock)
      [] OTHER -> FALSE

\* C10: concurrent requests share no mutable state: no step changes the
\* settings or the client_id, client_secret, redirect_uri and scopes of the
\* shared SpotifyOAuth instance, a step of one caller leaves every other
\* caller's request as it was, and what a caller's request becomes is an
\* outcome of its own inputs and its own upstream answer.
C10_NoSharedMutableState ==
    [][/\ settings' = settings
       /\ spotify_oauth' = spotify_oauth
       /\ \A c \in Callers :
            callers'[c] # callers[c] =>
               /\ IsOwnOutcome(callers'[c], callers[c], spotify_oauth, now)
               /\ \A d \in Callers \ {c} : callers'[d] = callers[d]]_vars

C10_Witness ==
    /\ callers["alice"].handler = "spotify_callback"
    /\ callers["alice"].response.success
    /\ callers["alice"].response.access_token = "AT1"
    /\ callers["bob"].pc = "refresh_profile"
    /\ callers["bob"].token.token.access_token = "AT2"

AuthHandlers == {"spotify_callback", "spotify_refresh_token"}

\* C14: in the callback and refresh handlers the profile GET (the second
\* request) is sent only once the token step has handed the handler a Token;
\* a handler whose token step returned None sends no profile GET and
\* answers; a callback with a non-empty error sends no request at all.
C14_ProfileOnlyAfterToken ==
    \A c \in Callers :
        LET r == callers[c]
        IN r.handler \in AuthHandlers =>
             /\ r.sent \in 0..2
             /\ r.pc \in {"callback_token", "refresh_token"} =>
                    r.sent = 1 /\ r.got = <<>>
             /\ r.pc \in {"callback_profile", "refresh_profile"} =>
                    r.sent = 2 /\ r.got = <<"token">>
             /\ r.sent = 2 => Len(r.got) >= 1 /\ r.got[1] = "token"
             /\ (Len(r.got) >= 1 /\ r.got[1] # "token") =>
                    r.sent <= 1 /\ r.pc = "idle" /\ Len(r.got) = 1
             /\ (r.error \notin {None, ""}) =>
                    r.sent = 0 /\ r.pc = "idle" /\ r.got = <<>>

C14_Witness ==
    /\ callers["alice"].pc = "callback_profile"
    /\ callers["alice"].sent = 2
    /\ callers["alice"].got = <<"token">>
    /\ callers["bob"].handler = "spotify_callback"
    /\ callers["bob"].error = "access_denied"
    /\ callers["bob"].response.kind = "AuthResponse"
    /\ callers["bob"].sent = 0

\* C15: the AuthResponse of the callback and refresh handlers has success
\* True exactly when the token step returned a Token and the profile fetch
\* then returned a user; with success False it carries neither a user nor an
\* access_token, also when a Token had been obtained.
C15_SuccessIffBothSteps ==
    \A c \in Callers :
        LET r == callers[c]
        IN (r.handler \in AuthHandlers /\ r.pc = "idle"
              /\ r.response.kind = "AuthResponse") =>
             /\ r.response.success <=> r.got = <<"token", "user">>
             /\ r.response.success =>
                    r.response.has_user /\ r.response.access_token # None
             /\ ~r.response.success =>
                    /\ ~r.response.has_user
                    /\ r.response.user = NullUser
                    /\ r.response.access_token = None

C15_Witness ==
    /\ callers["alice"].handler = "spotify_refresh_token"
    /\ callers["alice"].pc = "idle"
    /\ callers["alice"].got = <<"token", "none">>
    /\ callers["alice"].response.kind = "AuthResponse"
    /\ ~callers["alice"].response.success
    /\ callers["alice"].response.access_token = None

\* The values an AuthResponse hands to the caller.
Delivered(resp) ==
    {resp.message, resp.access_token}
    \cup (IF resp.has_user
          THEN {resp.user.id, resp.user.display_name, resp.user.email,
                resp.user.country, resp.user.product}
          ELSE {})

\* C17: when the callback or the refresh handler answers with success, the
\* refresh token of the Token it obtained is among the values of its answer,
\* so the caller has the input of the next /auth/spotify/refresh.
C17_RefreshTokenDelivered ==
    [][ \A c \in Callers :
          (/\ callers[c].pc \in {"callback_profile", "refresh_profile"}
           /\ callers'[c].pc = "idle"
           /\ callers'[c].response.success
           /\ callers[c].token.token.refresh_token # None) =>
              callers[c].token.token.refresh_token \in Delivered(callers'[c].response)
      ]_vars

(***************************************************************************)
(* SpecRoutes: the route table of main.py.  A request is matched against   *)
(* the paths the @app decorators register; a path no route matches is      *)
(* answered 404 by the router, a path matched under another method 405.    *)
(* A path is the sequence of its segments, "{}" a path parameter.          *)
(***************************************************************************)
\* The largest user id a request names.
MaxUserId == 2

UserIds == 1..MaxUserId

RouteTable ==
    { [method |-> "GET", path |-> <<>>, handler |-> "root"],
      [method |-> "GET", path |-> <<"health">>, handler |-> "health_check"],
      [method |-> "GET", path |-> <<"auth", "spotify", "login">>,
       handler |-> "spotify_login"],
      [method |-> "GET", path |-> <<"auth", "spotify", "callback">>,
       handler |-> "spotify_callback"],
      [method |-> "POST", path |-> <<"auth", "spotify", "refresh">>,
       handler |-> "spotify_refresh_token"],
      [method |-> "GET", path |-> <<"spotify", "playlists">>,
       handler |-> "get_spotify_playlists"],
      [method |-> "GET", path |-> <<"spotify", "playlist", "{}">>,
       handler |-> "get_spotify_playlist"] }

Methods == {"GET", "POST", "PUT", "DELETE"}

UsersPath == <<"users">>
UserPath(id) == <<"users", ToString(id)>>

\* The paths of the requests: the user resource, and three routes of the app.
RequestPaths ==
    {UsersPath} \cup { UserPath(id) : id \in UserIds }
    \cup { <<>>, <<"health">>, <<"spotify", "playlist", "p1">> }

PathMatches(pattern, path) ==
    /\ Len(pattern) = Len(path)
    /\ \A i \in DOMAIN pattern : pattern[i] = "{}" \/ pattern[i] = path[i]

NoAnswer == [status |-> 0, detail |-> "", handler |-> "", id |-> 0]

\* The router: the handler the request is given to, or the router's own 404
\* or 405.  The handlers of the three routes requested here answer 200.
Route(method, path) ==
    LET matching == { r \in RouteTable : PathMatches(r.path, path) }
        allowed == { r \in matching : r.method = method }
    IN IF allowed # {}
       THEN [NoAnswer EXCEPT !.status = 200,
                             !.handler = (CHOOSE r \in allowed : TRUE).handler]
       ELSE IF matching # {}
       THEN [NoAnswer EXCEPT !.status = 405, !.detail = "Method Not Allowed"]
       ELSE [NoAnswer EXCEPT !.status = 404, !.detail = "Not Found"]

NoRouted ==
    [method |-> "", path |-> <<>>, existed |-> FALSE, gone |-> FALSE,
     answer |-> NoAnswer]

NoUsers == [fn |-> "users", created |-> {}, deleted |-> {}]

\* The id a /users/{id} path names, 0 for any other path.
UserIdOf(path) ==
    IF \E id \in UserIds : path = UserPath(id)
    THEN CHOOSE id \in UserIds : path = UserPath(id)
    ELSE 0

\* One request of caller c, answered.  util follows what the answers tell:
\* a user is created by a 201 to POST /users, deleted by a 200 to DELETE
\* /users/{id}.
Request(c) ==
    \E method \in Methods, path \in RequestPaths :
        LET answer == Route(method, path)
            id == UserIdOf(path)
        IN /\ callers' = [callers EXCEPT ![c] =
                  [method |-> method, path |-> path,
                   existed |-> id \in util.created \ util.deleted,
                   gone |-> id \in util.deleted,
                   answer |-> answer]]
           /\ util' =
                  IF method = "POST" /\ path = UsersPath /\ answer.status = 201
                  THEN [util EXCEPT !.created = @ \cup {answer.id}]
                  ELSE IF method = "DELETE" /\ id # 0 /\ answer.status = 200
                  THEN [util EXCEPT !.deleted = @ \cup {id}]
                  ELSE util
           /\ UNCHANGED <<settings, spotify_oauth, now, held, last, issued,
                          consumed, generated>>

InitRoutes ==
    /\ settings \in SettingsSet
    /\ spotify_oauth = SpotifyOAuth_init(settings)
    /\ now = 0
    /\ held = ReturnNone(0)
    /\ last = NoCall
    /\ callers = [c \in Callers |-> NoRouted]
    /\ issued = {}
    /\ consumed = {}
    /\ generated = <<>>
    /\ util = NoUsers

NextRoutes == \E c \in Callers : Request(c)

SpecRoutes == InitRoutes /\ [][NextRoutes]_vars

\* C13: POST /users is answered 201 with the id of the user it created; GET
\* /users/{id} of a user created and not deleted is answered 200, DELETE of
\* it 200, and GET /users/{id} after the delete 404.
C13_UsersCreateReadDelete ==
    \A c \in Callers :
        LET r == callers[c]
        IN /\ (r.method = "POST" /\ r.path = UsersPath) =>
                  r.answer.status = 201 /\ r.answer.id \in UserIds
           /\ (r.method \in {"GET", "DELETE"} /\ r.existed) =>
                  r.answer.status = 200
           /\ (r.method = "GET" /\ r.gone) => r.answer.status = 404

(***************************************************************************)
(* utils.py: retry_on_exception.  SpecRetry follows one call of the        *)
(* wrapper around a function func whose every call returns or raises.      *)
(*   pc "for"    at the head of `for attempt in range(max_retries + 1)`    *)
(*      "sleep"  in `await asyncio.sleep(delay)`                           *)
(*      "done"   the wrapper has returned or raised                        *)
(* log lists the calls of func and the sleeps in the order they happened.  *)
(***************************************************************************)
\* The largest max_retries a wrapper is made with.
MaxRetries == 3

\* max_retries as the decorator receives it: an int, negative ones included.
RetryCounts == (0 - 1)..MaxRetries

RetryDelays == {0, 1}

\* What a call of func can end in: a result, an Exception, or a
\* BaseException that is not an Exception (asyncio.CancelledError).
FuncExceptions == {"ValueError", "KeyError"}
FuncOutcomes == {"return", "CancelledError"} \cup FuncExceptions

NoException == [type |-> "None", attempt |-> 0 - 1]

RetryStart(max_retries, delay) ==
    [fn |-> "retry_on_exception", max_retries |-> max_retries, delay |-> delay,
     pc |-> "for", attempt |-> 0, last_exception |-> NoException, log |-> <<>>,
     outcome |-> "none", value |-> 0 - 1, exc |-> NoException]

RetryAgain_Always(attempt, max_retries) == TRUE

\* `if attempt < max_retries:`
RetryAgain(attempt, max_retries) == attempt < max_retries

\* One pass of the loop body up to its await of the sleep: func is called
\* for the attempt-th time and ends in out.
wrapper_attempt(w, out) ==
    LET e == [type |-> out, attempt |-> w.attempt]
        called == [w EXCEPT !.log = Append(@, [ev |-> "call", out |-> out])]
    IN CASE out = "return" ->
              [called EXCEPT !.pc = "done", !.outcome = "returned",
                             !.value = w.attempt]
         [] out \notin FuncExceptions ->
              [called EXCEPT !.pc = "done", !.outcome = "raised", !.exc = e]
         [] RetryAgain(w.attempt, w.max_retries) ->
              [called EXCEPT !.pc = "sleep", !.last_exception = e]
         [] OTHER ->
              [called EXCEPT !.attempt = @ + 1, !.last_exception = e]

\* asyncio.sleep(delay) returns and the loop goes to its next attempt.
wrapper_slept(w) ==
    [w EXCEPT !.pc = "for", !.attempt = @ + 1,
              !.log = Append(@, [ev |-> "sleep", out |-> "delay"])]

\* `raise last_exception` after the loop; raising None is a TypeError.
wrapper_exhausted(w) ==
    [w EXCEPT !.pc = "done", !.outcome = "raised",
              !.exc = IF w.last_exception = NoException
                      THEN [type |-> "TypeError", attempt |-> 0 - 1]
                      ELSE w.last_exception]

RetryAttempt ==
    \E out \in FuncOutcomes :
        /\ util.pc = "for"
        /\ util.attempt <= util.max_retries
        /\ util' = wrapper_attempt(util, out)
        /\ UNCHANGED <<settings, spotify_oauth, now, held, last, callers,
                       issued, consumed, generated>>

RetrySleep ==
    /\ util.pc = "sleep"
    /\ util' = wrapper_slept(util)
    /\ UNCHANGED <<settings, spotify_oauth, now, held, last, callers,
                   issued, consumed, generated>>

RetryExhausted ==
    /\ util.pc = "for"
    /\ util.attempt > util.max_retries
    /\ util' = wrapper_exhausted(util)
    /\ UNCHANGED <<settings, spotify_oauth, now, held, last, callers,
                   issued, consumed, generated>>

InitRetry ==
    /\ settings \in SettingsSet
    /\ spotify_oauth = SpotifyOAuth_init(settings)
    /\ now = 0
    /\ held = ReturnNone(0)
    /\ last = NoCall
    /\ callers = NoCallers
    /\ issued = {}
    /\ consumed = {}
    /\ generated = <<>>
    /\ util \in { RetryStart(n, d) : n \in RetryCounts, d \in RetryDelays }

NextRetry == RetryAttempt \/ RetrySleep \/ RetryExhausted

\* The event loop resumes a coroutine whose awaited call has finished.
SpecRetry == InitRetry /\ [][NextRetry]_vars /\ WF_vars(NextRetry)

Calls(log) == { i \in DOMAIN log : log[i].ev = "call" }
Sleeps(log) == { i \in DOMAIN log : log[i].ev = "sleep" }

\* What C16 says of every state of a wrapper made with max_retries >= 0.
RetryBounded ==
    util.max_retries >= 0 =>
        LET log == util.log
            n == util.max_retries
            final == Len(log)
        IN /\ Cardinality(Calls(log)) <= n + 1
           \* calls and sleeps alternate, a call first: one sleep between
           \* any two consecutive calls
           /\ \A i \in DOMAIN log :
                 log[i].ev = IF i % 2 = 1 THEN "call" ELSE "sleep"
           \* no call follows one that did not raise
           /\ \A i \in Calls(log) :
                 log[i].out \notin FuncExceptions => i = final
           /\ util.pc = "done" =>
                 /\ final >= 1 /\ log[final].ev = "call"
                 /\ util.outcome \in {"returned", "raised"}
                 /\ util.outcome = "returned" <=> log[final].out = "return"
                 /\ util.outcome = "returned" =>
                        util.value = Cardinality(Calls(log)) - 1
                 /\ util.outcome = "raised" =>
                        util.exc = [type |-> log[final].out,
                                    attempt |-> Cardinality(Calls(log)) - 1]
                 /\ (\A i \in Calls(log) : log[i].out \in FuncExceptions) =>
                        /\ Cardinality(Calls(log)) = n + 1
                        /\ Cardinality(Sleeps(log)) = n

\* C16: a wrapper made by retry_on_exception(max_retries = n, delay = d),
\* n >= 0, calls the function at most n + 1 times, returns the result of the
\* first call that does not raise and calls no more, re-raises the exception
\* of the last call when all n + 1 raised, sleeps once between consecutive
\* calls and not after the last, and terminates.
C16_RetryBoundedAndTerminates ==
    /\ []RetryBounded
    /\ util.max_retries >= 0 => <>(util.pc = "done")

C16_Witness ==
    /\ util.fn = "retry_on_exception"
    /\ util.max_retries = 2
    /\ util.pc = "done"
    /\ util.outcome = "raised"
    /\ Cardinality(Calls(util.log)) = 3
    /\ Cardinality(Sleeps(util.log)) = 2
    /\ util.exc = [type |-> "KeyError", attempt |-> 2]

(***************************************************************************)
(* utils.py: sanitize_string.  A string is the sequence of its characters. *)
(***************************************************************************)
\* The longest input string.
MaxTextLen == 3

\* A letter, a whitespace character, two of the characters the pattern
\* [<>"'] removes.
Alphabet == {"a", " ", "<", "'"}
Whitespace == {" "}
Dangerous == {"<", ">", "\"", "'"}

Texts == UNION { [1..n -> Alphabet] : n \in 0..MaxTextLen }

\* max_length: None, or a length from zero on.
NoMaxLength == [given |-> FALSE, n |-> 0]
MaxLengths ==
    {NoMaxLength} \cup { [given |-> TRUE, n |-> k] : k \in 0..MaxTextLen }

\* str.strip()
strip(text) ==
    LET kept == { i \in DOMAIN text : text[i] \notin Whitespace }
        first == CHOOSE i \in kept : \A j \in kept : i <= j
        final == CHOOSE i \in kept : \A j \in kept : i >= j
    IN IF kept = {} THEN <<>> ELSE SubSeq(text, first, final)

IsDangerous(ch) == ch \in Dangerous

\* re.sub(r'[<>"\']', '', text)
RemoveDangerous(text) ==
    LET kept == { i \in DOMAIN text : ~IsDangerous(text[i]) }
        \* the position in text of the k-th character kept
        at(k) == CHOOSE i \in kept : Cardinality({ j \in kept : j <= i }) = k
    IN [k \in 1..Cardinality(kept) |-> text[at(k)]]

\* text[:m]
SliceTo(text, m) ==
    LET stop == IF m >= 0 THEN m ELSE Len(text) + m
    IN SubSeq(text, 1, IF stop > Len(text) THEN Len(text)
                       ELSE IF stop < 0 THEN 0 ELSE stop)

\* `if max_length and len(text) > max_length`: None and 0 are falsy.
sanitize_string(text, max_length) ==
    IF text = <<>> THEN <<>>
    ELSE LET stripped == strip(text)
             cleaned == RemoveDangerous(stripped)
         IN IF max_length.given /\ max_length.n # 0
               /\ Len(cleaned) > max_length.n
            THEN SliceTo(cleaned, max_length.n)
            ELSE cleaned

Sanitize ==
    /\ util.pc = "call"
    /\ util' = [util EXCEPT !.pc = "done",
                            !.result = sanitize_string(util.text, util.max_length)]
    /\ UNCHANGED <<settings, spotify_oauth, now, held, last, callers,
                   issued, consumed, generated>>

InitSanitize ==
    /\ settings \in SettingsSet
    /\ spotify_oauth = SpotifyOAuth_init(settings)
    /\ now = 0
    /\ held = ReturnNone(0)
    /\ last = NoCall
    /\ callers = NoCallers
    /\ issued = {}
    /\ consumed = {}
    /\ generated = <<>>
    /\ util \in { [fn |-> "sanitize_string", pc |-> "call", text |-> t,
                    max_length |-> m, result |-> <<>>] :
                   t \in Texts, m \in MaxLengths }

SpecSanitize == InitSanitize /\ [][Sanitize]_vars

\* C18: for every string and every max_length what sanitize_string returns
\* has no leading and no trailing whitespace, none of < > " ', at most
\* max_length characters when max_length is given, and is returned unchanged
\* when it is sanitized again.
C18_SanitizedAndIdempotent ==
    (util.fn = "sanitize_string" /\ util.pc = "done") =>
        LET out == util.result
        IN /\ out # <<>> =>
                 out[1] \notin Whitespace /\ out[Len(out)] \notin Whitespace
           /\ \A i \in DOMAIN out : out[i] \notin Dangerous
           /\ util.max_length.given => Len(out) <= util.max_length.n
           /\ sanitize_string(out, util.max_length) = out

(***************************************************************************)
(* utils.py: paginate_results, create_response_metadata,                   *)
(* validate_pagination_params.  List indices are Python's, from 0.         *)
(***************************************************************************)
\* The longest list paginated, the largest page and per_page asked for.
MaxItems == 5
MaxPage == 3
MaxPerPage == 3

DefaultMaxPerPage == 100

\* The lists: n distinct items in a fixed order.
ItemLists == { [i \in 1..n |-> i] : n \in 0..MaxItems }

\* page and per_page as a request gives them.
RawPages == 0..MaxPage
RawPerPages == 0..MaxPerPage

\* max(1, page), max(1, min(per_page, max_per_page))
validate_pagination_params(page, per_page, max_per_page) ==
    LET capped == IF per_page < max_per_page THEN per_page ELSE max_per_page
    IN [page |-> IF page > 1 THEN page ELSE 1,
        per_page |-> IF capped > 1 THEN capped ELSE 1]

\* items[start:end] for 0 <= start <= end
Slice(items, start, end) ==
    LET stop == IF end > Len(items) THEN Len(items) ELSE end
    IN SubSeq(items, start + 1, stop)

HasNext_Inclusive(end, total) == end <= total

\* "has_next": end < total
HasNext(end, total) == end < total

paginate_results(items, page, per_page) ==
    LET total == Len(items)
        start == (page - 1) * per_page
        end == start + per_page
    IN [items |-> Slice(items, start, end),
        total |-> total,
        page |-> page,
        per_page |-> per_page,
        pages |-> (total + per_page - 1) \div per_page,
        has_next |-> HasNext(end, total),
        has_prev |-> page > 1]

create_response_metadata(total, page, per_page) ==
    LET pages == (total + per_page - 1) \div per_page
    IN [pagination |->
          [total |-> total, page |-> page, per_page |-> per_page,
           pages |-> pages, has_next |-> page < pages, has_prev |-> page > 1]]

Paginate ==
    /\ util.pc = "call"
    /\ util' = [util EXCEPT
                  !.pc = "done",
                  !.result = paginate_results(util.items, util.page, util.per_page),
                  !.metadata = create_response_metadata(Len(util.items),
                                   util.page, util.per_page)]
    /\ UNCHANGED <<settings, spotify_oauth, now, held, last, callers,
                   issued, consumed, generated>>

NoPage ==
    [items |-> <<>>, total |-> 0, page |-> 0, per_page |-> 0, pages |-> 0,
     has_next |-> FALSE, has_prev |-> FALSE]

InitPaginate ==
    /\ settings \in SettingsSet
    /\ spotify_oauth = SpotifyOAuth_init(settings)
    /\ now = 0
    /\ held = ReturnNone(0)
    /\ last = NoCall
    /\ callers = NoCallers
    /\ issued = {}
    /\ consumed = {}
    /\ generated = <<>>
    /\ util \in { LET v == validate_pagination_params(page, per_page,
                                                       DefaultMaxPerPage)
                   IN [fn |-> "paginate_results", pc |-> "call",
                       items |-> items, page |-> v.page,
                       per_page |-> v.per_page, result |-> NoPage,
                       metadata |-> [pagination |-> NoPage]] :
                   items \in ItemLists, page \in RawPages,
                   per_page \in RawPerPages }

SpecPaginate == InitPaginate /\ [][Paginate]_vars

\* The items of pages 1..p of the list, one page after the other.
RECURSIVE PagesUpTo(_, _, _)
PagesUpTo(items, per_page, p) ==
    IF p = 0 THEN <<>>
    ELSE PagesUpTo(items, per_page, p - 1)
         \o paginate_results(items, p, per_page).items

\* C19: for page >= 1 and per_page >= 1 paginate_results returns the items
\* at the indices from (page-1)*per_page up to, not including, page*per_page,
\* in order; pages is the ceiling of total/per_page; has_next and has_prev
\* are those of create_response_metadata(total, page, per_page), has_next
\* being page < pages; the pages 1..pages put together are the list.
C19_PaginateAgreesWithMetadata ==
    (util.fn = "paginate_results" /\ util.pc = "done") =>
        LET r == util.result
            m == util.metadata.pagination
            total == Len(util.items)
            \* the Python indices of the page that exist in the list
            idx == { k \in 0..(total - 1) :
                       /\ (util.page - 1) * util.per_page <= k
                       /\ k < util.page * util.per_page }
        IN /\ util.page >= 1 /\ util.per_page >= 1
           /\ Len(r.items) = Cardinality(idx)
           /\ \A j \in DOMAIN r.items :
                 r.items[j] = util.items[(util.page - 1) * util.per_page + j]
           /\ r.pages * util.per_page >= total
           /\ (r.pages - 1) * util.per_page < total \/ r.pages = 0
           /\ r.pages = m.pages /\ r.total = total /\ m.total = total
           /\ r.has_next = m.has_next
           /\ r.has_prev = m.has_prev
           /\ r.has_next <=> util.page < r.pages
           /\ PagesUpTo(util.items, util.per_page, r.pages) = util.items

C19_Witness ==
    /\ util.fn = "paginate_results"
    /\ util.pc = "done"
    /\ Len(util.items) = 5
    /\ util.page = 2
    /\ util.per_page = 2
    /\ util.result.items = <<3, 4>>
    /\ util.result.pages = 3
    /\ util.result.has_next
    /\ util.metadata.pagination.has_next
====
